---- MODULE Spec2Model ----
(***************************************************************************)
(* A model of plugins/mipsrop.py: the MIPS ROP gadget finder.              *)
(*                                                                         *)
(* Strings the code inspects character by character (mnemonics, operands,  *)
(* regular expressions) are sequences of one-character strings.  The       *)
(* disassembler (idc / idaapi / idautils) is the table Decode over the     *)
(* instruction words held in mem.                                          *)
(***************************************************************************)
EXTENDS Integers, Sequences, FiniteSets, TLC

VARIABLES
    mem,                \* the instruction stream: word i sits at MemBase + INSIZE*(i-1)
    segments,           \* _get_segments(CODE): sequence of <<start, end>>
    xrefs,              \* idautils.XrefsTo(LocByName('system')): sequence of xref.frm
    pc,                 \* position of the constructor / session
    seg_i,              \* index of the segment the constructor's for loop is at
    idiom_i,            \* index of possible_control_instruction in t9_controls+ra_controls
    scan_ea,            \* local ea of _find_controllable_jumps
    local_jumps,        \* local controllable_jumps of _find_controllable_jumps
    controllable_jumps, \* self.controllable_jumps
    system_calls,       \* self.system_calls
    self_start,         \* self.start
    self_end,           \* self.end
    gadget_list,        \* what the last _find_rop_gadgets returned
    query,              \* the pattern of the last _find_rop_gadgets, if any: <<gadget>>
    probe               \* inputs and result of a direct call of a helper

vars == <<mem, segments, xrefs, pc, seg_i, idiom_i, scan_ea, local_jumps,
          controllable_jumps, system_calls, self_start, self_end, gadget_list,
          query, probe>>

(***************************************************************************)
(* Program constants.                                                      *)
(***************************************************************************)
INSIZE == 4
SEARCH_DEPTH == 25
\* idc.BADADDR, the address above every address of the stream (all ones in
\* IDA; here the largest integer TLC represents)
BADADDR == 2147483647

\* Python's None, and the empty string '' idc.GetOpnd returns for a missing operand.
None == <<"None">>
Empty == <<>>

\* Python truthiness of an optional string.
Truthy(s) == s # None /\ s # Empty

\* The one element of a singleton set.  Only({F(x) : x \in {e}}) is F(e) with e
\* computed once, as a local variable of the code is.
Only(S) == CHOOSE x \in S : TRUE

(***************************************************************************)
(* Bounds of the model.                                                    *)
(***************************************************************************)
MemLen == 4         \* instructions of a dense stream
TailLen == 3        \* dense instructions at the end of a deep stream
MaxXrefs == 2       \* cross-references to system
ProbeLen == 4       \* instructions of the stream the search probes run on

\* The stream starts at 0x1000.
MemBase == 1024 * INSIZE

(***************************************************************************)
(* The disassembler: what GetMnem / GetOpnd / the CF_CHG1 feature give for *)
(* each instruction word.                                                  *)
(***************************************************************************)
R_t9 == <<"$", "t", "9">>
R_ra == <<"$", "r", "a">>
R_s1 == <<"$", "s", "1">>
R_a0 == <<"$", "a", "0">>
R_sp == <<"$", "s", "p">>
S_system == <<"s", "y", "s", "t", "e", "m">>
S_stack == <<"0", "(", "$", "s", "p", ")">>
M_move == <<"m", "o", "v", "e">>
M_jalr == <<"j", "a", "l", "r">>
M_jr == <<"j", "r">>
M_lw == <<"l", "w">>
M_li == <<"l", "i">>
M_la == <<"l", "a">>
M_addiu == <<"a", "d", "d", "i", "u">>
M_nop == <<"n", "o", "p">>
M_b == <<"b">>

Ins(m, o0, o1, o2, c) == [mnem |-> m, ops |-> <<o0, o1, o2>>, chg1 |-> c]

Decode(w) ==
    CASE w = "move_t9_s1"   -> Ins(M_move, R_t9, R_s1, Empty, TRUE)
      [] w = "move_t9_t9"   -> Ins(M_move, R_t9, R_t9, Empty, TRUE)
      [] w = "move_s1_a0"   -> Ins(M_move, R_s1, R_a0, Empty, TRUE)
      [] w = "jalr_t9"      -> Ins(M_jalr, R_t9, Empty, Empty, FALSE)
      [] w = "jr_t9"        -> Ins(M_jr, R_t9, Empty, Empty, FALSE)
      [] w = "jr_ra"        -> Ins(M_jr, R_ra, Empty, Empty, FALSE)
      [] w = "b_loc"        -> Ins(M_b, <<"l">>, Empty, Empty, FALSE)
      [] w = "lw_ra"        -> Ins(M_lw, R_ra, S_stack, Empty, TRUE)
      [] w = "li_a0_1"      -> Ins(M_li, R_a0, <<"1">>, Empty, TRUE)
      [] w = "li_t9_1"      -> Ins(M_li, R_t9, <<"1">>, Empty, TRUE)
      [] w = "la_t9_system" -> Ins(M_la, R_t9, S_system, Empty, TRUE)
      [] w = "addiu_a0_sp"  -> Ins(M_addiu, R_a0, R_sp, <<"8">>, TRUE)
      [] w = "nop"          -> Ins(M_nop, Empty, Empty, Empty, FALSE)
      \* no instruction at the address: GetMnem and GetOpnd give '', and
      \* decode_insn fails, leaving idaapi.cmd as it was (the flag is then that
      \* of whatever was decoded last; the operand '' equals no register)
      [] OTHER              -> Ins(Empty, Empty, Empty, Empty, TRUE)

InMem(a) ==
    /\ a >= MemBase
    /\ a < MemBase + INSIZE * Len(mem)
    /\ (a - MemBase) % INSIZE = 0

WordAt(a) == IF InMem(a) THEN mem[((a - MemBase) \div INSIZE) + 1] ELSE "unmapped"

GetMnem(a) == Decode(WordAt(a)).mnem

\* idc.GetOpnd(ea, n), n = 0, 1, 2
GetOpnd(a, n) == Decode(WordAt(a)).ops[n + 1]

\* (insn_t_get_canon_feature(cmd.itype) & CF_CHG1) == CF_CHG1, cmd being the
\* instruction _does_instruction_match has just decoded at the same address
ChangesFirstOperand(a) == Decode(WordAt(a)).chg1

\* idaapi.decode_insn(ea): the instruction's size, 0 when there is none
decode_insn(a) == IF GetMnem(a) # Empty THEN INSIZE ELSE 0

\* class MIPSInstruction
MIPSInstruction(m, o0, o1, o2, a) == [mnem |-> m, operands |-> <<o0, o1, o2>>, ea |-> a]

get_instruction(a) ==
    MIPSInstruction(GetMnem(a), GetOpnd(a, 0), GetOpnd(a, 1), GetOpnd(a, 2), a)

\* class ROPGadget
ROPGadget(en, ex, op, d) == [entry |-> en, exit |-> ex, operation |-> op, description |-> d]

(***************************************************************************)
(* re.match(pattern, string) for the patterns made of literal characters,  *)
(* '.' and the escaped sigil '\$': anchored at the start only, so a        *)
(* pattern matches every string it matches a prefix of.                    *)
(***************************************************************************)
ReMeta == {".", "$", "^", "*", "+", "?", "(", ")", "[", "]", "{", "}", "|", "\\"}

ReTok(t, c) ==
    \/ t = "."
    \/ t = "\\$" /\ c = "$"
    \/ t \notin ReMeta /\ t = c

re_match(p, s) ==
    /\ Len(p) <= Len(s)
    /\ \A k \in 1..Len(p) : ReTok(p[k], s[k])

(***************************************************************************)
(* MIPSROPFinder._does_instruction_match                                   *)
(***************************************************************************)
\* _does_instruction_match, were one matching operand enough
does_instruction_match_partial(a, instruction, regex) ==
    LET mnem == GetMnem(a)
        op_cnt == Cardinality({i \in 1..3 : Truthy(instruction.operands[i])})
        op_ok_cnt == Cardinality({i \in 1..3 :
                        /\ Truthy(instruction.operands[i])
                        /\ IF regex
                           THEN re_match(instruction.operands[i], GetOpnd(a, i - 1))
                           ELSE instruction.operands[i] = GetOpnd(a, i - 1)})
    IN  /\ \/ ~Truthy(instruction.mnem)
           \/ instruction.mnem = mnem
           \/ regex /\ re_match(instruction.mnem, mnem)
        /\ (op_cnt = 0 \/ op_ok_cnt > 0)

OperandOk(a, instruction, regex, i) ==
    IF regex THEN re_match(instruction.operands[i], GetOpnd(a, i - 1))
    ELSE instruction.operands[i] = GetOpnd(a, i - 1)

does_instruction_match(a, instruction, regex) ==
    LET mnem == GetMnem(a)
        op_cnt == Cardinality({i \in 1..3 : Truthy(instruction.operands[i])})
        op_ok_cnt == Cardinality({i \in 1..3 :
                        /\ Truthy(instruction.operands[i])
                        /\ OperandOk(a, instruction, regex, i)})
    IN  /\ \/ ~Truthy(instruction.mnem)
           \/ instruction.mnem = mnem
           \/ regex /\ re_match(instruction.mnem, mnem)
        /\ op_cnt = op_ok_cnt

(***************************************************************************)
(* MIPSROPFinder._is_bad_instruction, bad_instructions = ['j', 'b']        *)
(***************************************************************************)
bad_instructions == {"j", "b"}

is_bad_instruction(a, no_clobber) ==
    LET mnem == GetMnem(a)
    IN  IF mnem # Empty /\ mnem[1] \in bad_instructions
        THEN TRUE
        ELSE \E k \in 1..Len(no_clobber) :
                /\ ChangesFirstOperand(a)
                /\ GetOpnd(a, 0) = no_clobber[k]

(***************************************************************************)
(* MIPSROPFinder._find_prev_instruction_ea and _find_next_instruction_ea.  *)
(* The loops also count the addresses they visit.                          *)
(***************************************************************************)
\* the backward loop, were the stop test made before the match test
RECURSIVE prev_loop_stop_first(_, _, _, _, _, _, _)
prev_loop_stop_first(a, instruction, end_ea, no_baddies, regex, dont_overwrite, n) ==
    IF ~(a >= end_ea) THEN [ea |-> BADADDR, visited |-> n]
    ELSE IF no_baddies /\ is_bad_instruction(a, dont_overwrite)
         THEN [ea |-> BADADDR, visited |-> n + 1]
    ELSE IF does_instruction_match(a, instruction, regex)
         THEN [ea |-> a, visited |-> n + 1]
    ELSE prev_loop_stop_first(a - INSIZE, instruction, end_ea, no_baddies, regex,
                              dont_overwrite, n + 1)

\* the forward loop, were its end exclusive
RECURSIVE next_loop_exclusive(_, _, _, _, _, _, _)
next_loop_exclusive(a, instruction, end_ea, no_baddies, regex, dont_overwrite, n) ==
    IF ~(a < end_ea) THEN [ea |-> BADADDR, visited |-> n]
    ELSE IF does_instruction_match(a, instruction, regex)
         THEN [ea |-> a, visited |-> n + 1]
    ELSE IF no_baddies /\ is_bad_instruction(a, dont_overwrite)
         THEN [ea |-> BADADDR, visited |-> n + 1]
    ELSE next_loop_exclusive(a + INSIZE, instruction, end_ea, no_baddies, regex,
                             dont_overwrite, n + 1)

RECURSIVE prev_loop(_, _, _, _, _, _, _)
prev_loop(a, instruction, end_ea, no_baddies, regex, dont_overwrite, n) ==
    IF ~(a >= end_ea) THEN [ea |-> BADADDR, visited |-> n]
    ELSE IF does_instruction_match(a, instruction, regex)
         THEN [ea |-> a, visited |-> n + 1]
    ELSE IF no_baddies /\ is_bad_instruction(a, dont_overwrite)
         THEN [ea |-> BADADDR, visited |-> n + 1]
    ELSE prev_loop(a - INSIZE, instruction, end_ea, no_baddies, regex, dont_overwrite, n + 1)

RECURSIVE next_loop(_, _, _, _, _, _, _)
next_loop(a, instruction, end_ea, no_baddies, regex, dont_overwrite, n) ==
    IF ~(a <= end_ea) THEN [ea |-> BADADDR, visited |-> n]
    ELSE IF does_instruction_match(a, instruction, regex)
         THEN [ea |-> a, visited |-> n + 1]
    ELSE IF no_baddies /\ is_bad_instruction(a, dont_overwrite)
         THEN [ea |-> BADADDR, visited |-> n + 1]
    ELSE next_loop(a + INSIZE, instruction, end_ea, no_baddies, regex, dont_overwrite, n + 1)

find_prev_instruction_ea(start_ea, instruction, end_ea, no_baddies, regex, dont_overwrite) ==
    prev_loop(start_ea, instruction, end_ea, no_baddies, regex, dont_overwrite, 0).ea

find_next_instruction_ea(start_ea, instruction, end_ea, no_baddies, regex, dont_overwrite) ==
    next_loop(start_ea, instruction, end_ea, no_baddies, regex, dont_overwrite, 0).ea

(***************************************************************************)
(* MIPSROPFinder._find_system_calls: the whole call for one segment.       *)
(***************************************************************************)
system_load == MIPSInstruction(M_la, R_t9, S_system, None, BADADDR)
stack_arg_zero == MIPSInstruction(M_addiu, R_a0, R_sp, None, BADADDR)

\* lines 302-304: the argument setup of the call at x
arg_setup_ea(x) ==
    LET a0_ea == find_next_instruction_ea(x + INSIZE, stack_arg_zero, x + INSIZE,
                                          FALSE, FALSE, <<>>)
    IN  IF a0_ea = BADADDR
        THEN find_prev_instruction_ea(x, stack_arg_zero, x - (SEARCH_DEPTH * INSIZE),
                                      TRUE, FALSE, <<>>)
        ELSE a0_ea

\* line 307: the load of system's address that controls the call at x
system_load_ea(x) ==
    find_prev_instruction_ea(x - INSIZE, system_load, x - (SEARCH_DEPTH * INSIZE),
                             TRUE, FALSE, <<>>)

\* lines 301-309: what the call-site x adds to the list
system_call_at(x) ==
    LET a0_ea == arg_setup_ea(x)
        control_ea == system_load_ea(x)
    IN  IF a0_ea # BADADDR /\ control_ea # BADADDR
        THEN <<ROPGadget(get_instruction(control_ea), get_instruction(x),
                         get_instruction(a0_ea), "System call")>>
        ELSE <<>>

\* line 301: the call-site is within the segment and is a jump or a branch
is_call_site(x, start_ea, end_ea) ==
    x >= start_ea /\ x <= end_ea /\ GetMnem(x)[1] \in {"j", "b"}

\* lines 299-313: the for loop over the cross-references, with its break
RECURSIVE xrefs_loop(_, _, _, _)
xrefs_loop(k, start_ea, end_ea, acc) ==
    IF k > Len(xrefs) THEN acc
    ELSE IF is_call_site(xrefs[k], start_ea, end_ea)
         THEN xrefs_loop(k + 1, start_ea, end_ea, acc \o system_call_at(xrefs[k]))
    ELSE acc

find_system_calls(start_ea, end_ea) == xrefs_loop(1, start_ea, end_ea, <<>>)

(***************************************************************************)
(* MIPSROPFinder._find_controllable_jumps                                  *)
(***************************************************************************)
t9_controls == <<MIPSInstruction(M_move, R_t9, None, None, BADADDR)>>
t9_jumps == <<MIPSInstruction(M_jalr, R_t9, None, None, BADADDR),
              MIPSInstruction(M_jr, R_t9, None, None, BADADDR)>>
ra_controls == <<MIPSInstruction(M_lw, R_ra, None, None, BADADDR)>>
ra_jumps == <<MIPSInstruction(M_jr, R_ra, None, None, BADADDR)>>
t9_musnt_clobber == <<R_t9>>
ra_musnt_clobber == <<R_ra>>

controls == t9_controls \o ra_controls

\* lines 266-271
jumps_of(idiom) == IF idiom <= Len(t9_controls) THEN t9_jumps ELSE ra_jumps
musnt_clobber_of(idiom) ==
    IF idiom <= Len(t9_controls) THEN t9_musnt_clobber ELSE ra_musnt_clobber

\* lines 283-288: the for loop over the jumps; a is the local ea, which a jump
\* found moves to that jump
RECURSIVE jumps_loop(_, _, _, _, _, _, _, _)
jumps_loop(k, jumps, a, control_instruction, ins_size, end_ea, musnt_clobber, acc) ==
    IF k > Len(jumps) THEN [ea |-> a, found |-> acc]
    ELSE Only({
             IF jump_ea # BADADDR
             THEN jumps_loop(k + 1, jumps, jump_ea, control_instruction, ins_size,
                             end_ea, musnt_clobber,
                             Append(acc, ROPGadget(control_instruction,
                                                   get_instruction(jump_ea), None,
                                                   "Controllable Jump")))
             ELSE jumps_loop(k + 1, jumps, a, control_instruction, ins_size,
                             end_ea, musnt_clobber, acc)
           : jump_ea \in {find_next_instruction_ea(a + ins_size, jumps[k], end_ea,
                                                   TRUE, FALSE, musnt_clobber)} })

\* scan_iteration, were a control whose source is its own destination skipped
scan_iteration_skipping_self_move(a, idiom, end_ea) ==
    LET e == find_next_instruction_ea(a, controls[idiom], end_ea, FALSE, FALSE, <<>>)
    IN  IF e # BADADDR
        THEN LET ins_size == decode_insn(e)
                 control_instruction == get_instruction(e)
                 control_register == control_instruction.operands[2]
             IN  IF Truthy(control_register)
                    /\ control_register # control_instruction.operands[1]
                 THEN LET r == jumps_loop(1, jumps_of(idiom), e, control_instruction,
                                          ins_size, end_ea, musnt_clobber_of(idiom), <<>>)
                      IN  [ea |-> r.ea + ins_size, found |-> r.found]
                 ELSE [ea |-> e + ins_size, found |-> <<>>]
        ELSE [ea |-> BADADDR, found |-> <<>>]

\* scan_iteration, were the cursor advanced only past a jump that was found
scan_iteration_stalling(a, idiom, end_ea) ==
    LET e == find_next_instruction_ea(a, controls[idiom], end_ea, FALSE, FALSE, <<>>)
    IN  IF e # BADADDR
        THEN LET ins_size == decode_insn(e)
                 control_instruction == get_instruction(e)
                 r == jumps_loop(1, jumps_of(idiom), e, control_instruction,
                                 ins_size, end_ea, musnt_clobber_of(idiom), <<>>)
             IN  [ea |-> IF r.found # <<>> THEN r.ea + ins_size ELSE e,
                  found |-> r.found]
        ELSE [ea |-> BADADDR, found |-> <<>>]

\* lines 275-290: one iteration of the while loop, from the local ea = a
scan_iteration(a, idiom, end_ea) ==
    Only({
        IF e # BADADDR
        THEN Only({
                 IF Truthy(control_instruction.operands[2])
                 THEN Only({ [ea |-> r.ea + decode_insn(e), found |-> r.found]
                           : r \in {jumps_loop(1, jumps_of(idiom), e, control_instruction,
                                          decode_insn(e), end_ea, musnt_clobber_of(idiom), <<>>)} })
                 ELSE [ea |-> e + decode_insn(e), found |-> <<>>]
               : control_instruction \in {get_instruction(e)} })
        ELSE [ea |-> BADADDR, found |-> <<>>]
      : e \in {find_next_instruction_ea(a, controls[idiom], end_ea, FALSE, FALSE, <<>>)} })

(***************************************************************************)
(* MIPSROPFinder._find_rop_gadgets                                         *)
(***************************************************************************)
\* gadget_ea_of, were the forward scan to end at the jump, its delay slot left out
gadget_ea_of_without_delay_slot(controllable_jump, gadget) ==
    LET fwd == find_next_instruction_ea(controllable_jump.entry.ea, gadget,
                                        controllable_jump.exit.ea,
                                        FALSE, TRUE, <<>>)
    IN  IF fwd # BADADDR THEN fwd
        ELSE find_prev_instruction_ea(controllable_jump.entry.ea, gadget,
                                      controllable_jump.entry.ea - (SEARCH_DEPTH * INSIZE),
                                      TRUE, TRUE,
                                      <<controllable_jump.entry.operands[2]>>)

\* lines 321-329: the address of the gadget's operation, or BADADDR
gadget_ea_of(controllable_jump, gadget) ==
    LET fwd == find_next_instruction_ea(controllable_jump.entry.ea, gadget,
                                        controllable_jump.exit.ea + INSIZE,
                                        FALSE, TRUE, <<>>)
    IN  IF fwd # BADADDR THEN fwd
        ELSE find_prev_instruction_ea(controllable_jump.entry.ea, gadget,
                                      controllable_jump.entry.ea - (SEARCH_DEPTH * INSIZE),
                                      TRUE, TRUE,
                                      <<controllable_jump.entry.operands[2]>>)

RECURSIVE gadgets_loop(_, _, _)
gadgets_loop(k, gadget, acc) ==
    IF k > Len(controllable_jumps) THEN acc
    ELSE LET controllable_jump == controllable_jumps[k]
             gadget_ea == gadget_ea_of(controllable_jump, gadget)
         IN  IF gadget_ea # BADADDR
             THEN gadgets_loop(k + 1, gadget,
                               Append(acc, ROPGadget(controllable_jump.entry,
                                                     controllable_jump.exit,
                                                     get_instruction(gadget_ea),
                                                     "ROP gaget")))
             ELSE gadgets_loop(k + 1, gadget, acc)

find_rop_gadgets(gadget) == gadgets_loop(1, gadget, <<>>)

(***************************************************************************)
(* The session: MIPSROPFinder.__init__ step by step, then the queries.     *)
(***************************************************************************)
start_ea == segments[seg_i][1]
end_ea == segments[seg_i][2]

\* line 146, entering the body of the for loop over the segments
EnterSegment ==
    /\ pc = "segment_for"
    /\ seg_i <= Len(segments)
    /\ system_calls' = system_calls \o find_system_calls(start_ea, end_ea)
    /\ local_jumps' = <<>>
    /\ idiom_i' = 1
    /\ pc' = "idiom_for"
    /\ UNCHANGED <<mem, segments, xrefs, seg_i, scan_ea, controllable_jumps,
                   self_start, self_end, gadget_list, query, probe>>

\* lines 262-271: the next control idiom, scanned from the segment's start
NextIdiom ==
    /\ pc = "idiom_for"
    /\ idiom_i <= Len(controls)
    /\ scan_ea' = start_ea
    /\ pc' = "while"
    /\ UNCHANGED <<mem, segments, xrefs, seg_i, idiom_i, local_jumps,
                   controllable_jumps, system_calls, self_start, self_end,
                   gadget_list, query, probe>>

\* lines 273-290: one iteration of the while loop
ScanIteration ==
    /\ pc = "while"
    /\ scan_ea <= end_ea
    /\ LET r == scan_iteration(scan_ea, idiom_i, end_ea)
       IN  /\ scan_ea' = r.ea
           /\ local_jumps' = local_jumps \o r.found
    /\ UNCHANGED <<mem, segments, xrefs, pc, seg_i, idiom_i, controllable_jumps,
                   system_calls, self_start, self_end, gadget_list, query, probe>>

\* line 273: the while loop ends
ScanExit ==
    /\ pc = "while"
    /\ ~(scan_ea <= end_ea)
    /\ idiom_i' = idiom_i + 1
    /\ pc' = "idiom_for"
    /\ UNCHANGED <<mem, segments, xrefs, seg_i, scan_ea, local_jumps,
                   controllable_jumps, system_calls, self_start, self_end,
                   gadget_list, query, probe>>

\* line 292 and lines 147-149: the jumps of the segment are returned and kept
ReturnJumps ==
    /\ pc = "idiom_for"
    /\ idiom_i > Len(controls)
    /\ controllable_jumps' = controllable_jumps \o local_jumps
    /\ self_start' = IF self_start = BADADDR THEN start_ea ELSE self_start
    /\ seg_i' = seg_i + 1
    /\ pc' = "segment_for"
    /\ UNCHANGED <<mem, segments, xrefs, idiom_i, scan_ea, local_jumps,
                   system_calls, self_end, gadget_list, query, probe>>

\* line 150: the for loop over the segments is over
Finish ==
    /\ pc = "segment_for"
    /\ seg_i > Len(segments)
    /\ self_end' = IF Len(segments) = 0 THEN 0 ELSE segments[Len(segments)][2]
    /\ pc' = "done"
    /\ UNCHANGED <<mem, segments, xrefs, seg_i, idiom_i, scan_ea, local_jumps,
                   controllable_jumps, system_calls, self_start, gadget_list,
                   query, probe>>

(***************************************************************************)
(* The inputs.                                                             *)
(***************************************************************************)
AddrOf(i) == MemBase + INSIZE * (i - 1)

\* one segment over the whole stream, or two adjacent ones; idc.SegEnd is the
\* address after the segment's last instruction
Layouts(n) ==
    {<< <<AddrOf(1), AddrOf(n + 1)>> >>}
    \cup {<< <<AddrOf(1), AddrOf(k + 1)>>, <<AddrOf(k + 1), AddrOf(n + 1)>> >> :
            k \in {n \div 2}}

NoProbe == [kind |-> "none"]

InitSession ==
    /\ pc = "segment_for"
    /\ seg_i = 1
    /\ idiom_i = 1
    /\ scan_ea = 0
    /\ local_jumps = <<>>
    /\ controllable_jumps = <<>>
    /\ system_calls = <<>>
    /\ self_start = BADADDR
    /\ self_end = BADADDR
    /\ gadget_list = <<>>
    /\ query = <<>>
    /\ probe = NoProbe

JumpWords == {"move_t9_s1", "move_t9_t9", "jalr_t9", "jr_t9", "lw_ra", "jr_ra", "li_t9_1"}

ScenarioA == <<"move_t9_s1", "jalr_t9", "li_a0_1">>
ScenarioB == <<"move_t9_t9", "jalr_t9", "li_a0_1">>

\* streams of jump idioms; system is not referenced
Init ==
    /\ mem \in [1..MemLen -> JumpWords] \cup {ScenarioA, ScenarioB}
    /\ segments \in Layouts(Len(mem))
    /\ xrefs = <<>>
    /\ InitSession

Next ==
    \/ EnterSegment
    \/ NextIdiom
    \/ ScanIteration
    \/ ScanExit
    \/ ReturnJumps
    \/ Finish

Spec == Init /\ [][Next]_vars

LiveWords == {"move_t9_s1", "jalr_t9", "jr_t9", "lw_ra", "jr_ra"}

InitLive ==
    /\ mem \in [1..MemLen -> LiveWords]
    /\ segments \in Layouts(Len(mem))
    /\ xrefs = <<>>
    /\ InitSession

\* the constructor is one synchronous call: it keeps running until it returns
SpecLive == InitLive /\ [][Next]_vars /\ WF_vars(Next)

(***************************************************************************)
(* Notions the claims are stated with.                                     *)
(***************************************************************************)
Range(seq) == {seq[k] : k \in 1..Len(seq)}

\* the instruction addresses strictly between lo and hi, counted from lo
Between(lo, hi) == {a \in (lo + 1)..(hi - 1) : (a - lo) % INSIZE = 0}

\* the instruction at a starts with 'j' or 'b', or writes the register r as its
\* first operand
UnsafeToCross(a, r) ==
    \/ GetMnem(a) # Empty /\ Head(GetMnem(a)) \in {"j", "b"}
    \/ ChangesFirstOperand(a) /\ GetOpnd(a, 0) = r

\* the idiom a control instruction belongs to, and its protected register
IsT9Control(i) == i.mnem = M_move /\ i.operands[1] = R_t9
IsRaControl(i) == i.mnem = M_lw /\ i.operands[1] = R_ra
IsT9Jump(i) == i.mnem \in {M_jalr, M_jr} /\ i.operands[1] = R_t9
IsRaJump(i) == i.mnem = M_jr /\ i.operands[1] = R_ra

AllJumps == Range(controllable_jumps) \cup Range(local_jumps)

(***************************************************************************)
(* C1: every "Controllable Jump" emitted has its control before its jump,  *)
(* a jump of the control's idiom, and between the two no instruction that  *)
(* is unsafe to cross: none starting with 'j' or 'b', none writing the     *)
(* idiom's protected register ($t9 or $ra) as its first operand.           *)
(***************************************************************************)
C1_EmittedJumpsAreSafe ==
    \A g \in AllJumps :
        /\ g.description = "Controllable Jump"
        /\ g.entry.ea < g.exit.ea
        /\ \/ IsT9Control(g.entry) /\ IsT9Jump(g.exit)
                /\ \A a \in Between(g.entry.ea, g.exit.ea) : ~UnsafeToCross(a, R_t9)
           \/ IsRaControl(g.entry) /\ IsRaJump(g.exit)
                /\ \A a \in Between(g.entry.ea, g.exit.ea) : ~UnsafeToCross(a, R_ra)

(***************************************************************************)
(* C6, as stated: scenario B (move $t9,$t9 at 0x1000, jalr $t9 at 0x1004,  *)
(* li $a0,1 at 0x1008) emits no ControlTransfer, and no emitted            *)
(* "Controllable Jump" has a control whose source operand is the           *)
(* indirect-call register itself.                                          *)
(***************************************************************************)
C6_SelfMoveNeverControls ==
    /\ mem = ScenarioB /\ pc = "done" => controllable_jumps = <<>>
    /\ \A g \in AllJumps : ~(IsT9Control(g.entry) /\ g.entry.operands[2] = R_t9)

(***************************************************************************)
(* C6, amended: the self-move is a control like any other.  Scenario B     *)
(* emits exactly one ControlTransfer, control 0x1000 and jump 0x1004, and  *)
(* every move $t9,$t9 of a segment that is immediately followed, within    *)
(* the segment, by jalr $t9 or jr $t9 is the control of an emitted         *)
(* "Controllable Jump" with that jump.                                     *)
(***************************************************************************)
SelfMoveAt(a) == GetMnem(a) = M_move /\ GetOpnd(a, 0) = R_t9 /\ GetOpnd(a, 1) = R_t9

C6_SelfMoveIsControl ==
    pc = "done" =>
        /\ mem = ScenarioB =>
              /\ Len(controllable_jumps) = 1
              /\ controllable_jumps[1].entry.ea = 4096
              /\ controllable_jumps[1].exit.ea = 4100
        /\ \A s \in 1..Len(segments) :
              \A a \in Between(segments[s][1] - INSIZE, segments[s][2]) :
                  SelfMoveAt(a) /\ IsT9Jump(get_instruction(a + INSIZE))
                  => \E g \in Range(controllable_jumps) :
                        /\ g.entry.ea = a
                        /\ g.exit.ea = a + INSIZE
                        /\ g.description = "Controllable Jump"

C6_Witness ==
    /\ pc = "done"
    /\ mem = ScenarioB
    /\ \E g \in Range(controllable_jumps) : g.entry.operands[2] = R_t9

(***************************************************************************)
(* C10: the scan pass terminates.  The constructor reaches its end; in the *)
(* Controllable-Jump Finder the cursor strictly increases on every         *)
(* iteration of the while loop, a control or a jump found or not; and a    *)
(* forward or backward search from start to end visits at most             *)
(* |end - start| / 4 + 1 addresses.                                        *)
(***************************************************************************)
Abs(x) == IF x < 0 THEN 0 - x ELSE x

\* the addresses searches are tried between: the stream and one slot around it
SearchAddrs == {AddrOf(i) : i \in 0..(Len(mem) + 1)}

SearchPatterns == Range(controls) \cup Range(t9_jumps)

SearchVisitsBounded ==
    \A s \in SearchAddrs, e \in SearchAddrs, p \in SearchPatterns, nb \in BOOLEAN :
        /\ next_loop(s, p, e, nb, FALSE, t9_musnt_clobber, 0).visited
              <= (Abs(e - s) \div INSIZE) + 1
        /\ prev_loop(s, p, e, nb, FALSE, t9_musnt_clobber, 0).visited
              <= (Abs(e - s) \div INSIZE) + 1

C10_ScanTerminates ==
    /\ <>(pc = "done")
    /\ [][pc = "while" /\ pc' = "while" => scan_ea' > scan_ea]_vars
    /\ [](pc = "segment_for" /\ seg_i = 1 => SearchVisitsBounded)

C10_Witness ==
    /\ pc = "done"
    /\ Len(segments) = 2
    /\ Len(controllable_jumps) >= 2
    /\ \E g \in Range(controllable_jumps) : IsRaControl(g.entry)

(***************************************************************************)
(* Streams with calls of system: any cross-references into the stream.     *)
(***************************************************************************)
SysWords == {"nop", "la_t9_system", "addiu_a0_sp", "jalr_t9"}

SeqsUpTo(S, n) == UNION {[1..k -> S] : k \in 0..n}

InitSys ==
    /\ mem \in [1..MemLen -> SysWords]
    /\ segments \in Layouts(Len(mem))
    /\ xrefs \in SeqsUpTo({AddrOf(i) : i \in 1..Len(mem)}, MaxXrefs)
    /\ InitSession

SpecSys == InitSys /\ [][Next]_vars

\* the k-th instruction address before x
Before(x, k) == x - k * INSIZE

IsJumpOrBranch(x) == GetMnem(x) # Empty /\ Head(GetMnem(x)) \in {"j", "b"}

IsArgSetup(a) ==
    GetMnem(a) = M_addiu /\ GetOpnd(a, 0) = R_a0 /\ GetOpnd(a, 1) = R_sp

IsSystemLoad(a) ==
    GetMnem(a) = M_la /\ GetOpnd(a, 0) = R_t9 /\ GetOpnd(a, 1) = S_system

InSegment(x, s) == x >= segments[s][1] /\ x <= segments[s][2]

(***************************************************************************)
(* C2: the argument fallback.  A call-site in the segment that is a jump   *)
(* or branch, whose delay slot does not hold addiu $a0,$sp,..., with that  *)
(* argument setup somewhere in the 25 instructions before the call, and    *)
(* with la $t9,system in the 25 instructions before the call and no jump   *)
(* or branch between it and the call, yields a "System call" whose jump is *)
(* the call, whose control is the load and whose annotation is the         *)
(* argument setup.  (Stated of the first cross-reference, which the loop   *)
(* always examines.)                                                       *)
(***************************************************************************)
C2_ArgumentFallbackFinds ==
    pc = "done" /\ xrefs # <<>> =>
        LET x == xrefs[1]
        IN  /\ \E s \in 1..Len(segments) : InSegment(x, s)
            /\ IsJumpOrBranch(x)
            /\ ~IsArgSetup(x + INSIZE)
            /\ \E k \in 1..SEARCH_DEPTH : IsArgSetup(Before(x, k))
            /\ \E k \in 1..SEARCH_DEPTH :
                  /\ IsSystemLoad(Before(x, k))
                  /\ \A a \in Between(Before(x, k), x) : ~IsJumpOrBranch(a)
            => \E g \in Range(system_calls) :
                  /\ g.description = "System call"
                  /\ g.exit.ea = x
                  /\ IsSystemLoad(g.entry.ea)
                  /\ IsArgSetup(g.operation.ea)

(***************************************************************************)
(* C3: every cross-reference is treated on its own.  Each one that lies in *)
(* a segment, is a jump or branch and has an argument setup and a          *)
(* controlling load yields exactly one "System call" (per segment holding  *)
(* it); the others are skipped without keeping later ones from being       *)
(* examined.                                                               *)
(***************************************************************************)
Resolvable(x) == arg_setup_ea(x) # BADADDR /\ system_load_ea(x) # BADADDR

C3_EveryCallSiteExamined ==
    pc = "done" =>
        \A x \in Range(xrefs) :
            Cardinality({j \in 1..Len(system_calls) : system_calls[j].exit.ea = x})
            = Cardinality({ks \in (1..Len(xrefs)) \X (1..Len(segments)) :
                              /\ xrefs[ks[1]] = x
                              /\ InSegment(x, ks[2])
                              /\ IsJumpOrBranch(x)
                              /\ Resolvable(x)})

(***************************************************************************)
(* Direct calls of the helpers: the session's own state stays idle.        *)
(***************************************************************************)
InitIdle ==
    /\ segments = <<>>
    /\ xrefs = <<>>
    /\ pc = "probe"
    /\ seg_i = 1
    /\ idiom_i = 1
    /\ scan_ea = 0
    /\ local_jumps = <<>>
    /\ controllable_jumps = <<>>
    /\ system_calls = <<>>
    /\ self_start = BADADDR
    /\ self_end = BADADDR
    /\ gadget_list = <<>>
    /\ query = <<>>

idle == <<mem, segments, xrefs, pc, seg_i, idiom_i, scan_ea, local_jumps,
          controllable_jumps, system_calls, self_start, self_end, gadget_list,
          query>>

AllWords == {"move_t9_s1", "move_t9_t9", "move_s1_a0", "jalr_t9", "jr_t9", "jr_ra",
             "b_loc", "lw_ra", "li_a0_1", "li_t9_1", "la_t9_system", "addiu_a0_sp",
             "nop"}

\* a pattern made from the instruction word w: each field left out (None),
\* empty, or that of w
PatternFrom(w, sel) ==
    LET f(k, v) == IF sel[k] = "none" THEN None
                   ELSE IF sel[k] = "empty" THEN Empty ELSE v
    IN  MIPSInstruction(f(1, Decode(w).mnem), f(2, Decode(w).ops[1]),
                        f(3, Decode(w).ops[2]), f(4, Decode(w).ops[3]), BADADDR)

\* one instruction, and a pattern
InitMatch ==
    /\ mem \in [1..1 -> AllWords]
    /\ \E w \in AllWords, sel \in [1..4 -> {"none", "empty", "field"}], re \in BOOLEAN :
          probe = [kind |-> "match", pattern |-> PatternFrom(w, sel), regex |-> re,
                   done |-> FALSE, result |-> FALSE]
    /\ InitIdle

\* _does_instruction_match(ea, instruction, regex)
ApplyMatch ==
    /\ probe.kind = "match"
    /\ ~probe.done
    /\ probe' = [probe EXCEPT
                    !.done = TRUE,
                    !.result = does_instruction_match(AddrOf(1), probe.pattern, probe.regex)]
    /\ UNCHANGED idle

NextMatch == ApplyMatch

SpecMatch == InitMatch /\ [][NextMatch]_vars

\* the four fields of an instruction or of a pattern
Fields(i) == <<i.mnem, i.operands[1], i.operands[2], i.operands[3]>>

(***************************************************************************)
(* C7: the matcher is all-or-nothing in literal mode.  (1) A pattern with  *)
(* every field absent matches every instruction; (2) the pattern equal to  *)
(* the instruction matches it; (3) that pattern with one present field     *)
(* replaced by a different literal does not; (4) an absent field never     *)
(* affects the result: the match holds exactly when every present field    *)
(* equals the instruction's.                                               *)
(***************************************************************************)
C7_MatchAllOrNothing ==
    probe.kind = "match" /\ probe.done =>
        LET P == Fields(probe.pattern)
            I == Fields(get_instruction(AddrOf(1)))
        IN  /\ (\A f \in 1..4 : ~Truthy(P[f])) => probe.result
            /\ ~probe.regex /\ (\A f \in 1..4 : P[f] = I[f]) => probe.result
            /\ ~probe.regex
                  /\ (\E f \in 1..4 :
                        /\ Truthy(I[f]) /\ Truthy(P[f]) /\ P[f] # I[f]
                        /\ \A g \in (1..4) \ {f} : P[g] = I[g])
               => ~probe.result
            /\ ~probe.regex
               => (probe.result <=> \A f \in 1..4 : Truthy(P[f]) => P[f] = I[f])

\* a literal pattern equal to the instruction but for one operand, rejected
C7_Witness ==
    /\ probe.kind = "match" /\ probe.done /\ ~probe.regex /\ ~probe.result
    /\ LET P == Fields(probe.pattern)
           I == Fields(get_instruction(AddrOf(1)))
       IN  /\ P[1] = I[1] /\ P[2] = I[2] /\ P[4] = I[4]
           /\ Truthy(P[2]) /\ Truthy(P[3]) /\ Truthy(I[3]) /\ P[3] # I[3]

(***************************************************************************)
(* The windowed searches, called directly on a window [A, B] of a stream.  *)
(***************************************************************************)
SearchWords == {"li_a0_1", "move_s1_a0", "jr_ra", "nop"}

ProbePatterns == {MIPSInstruction(M_li, R_a0, None, None, BADADDR),
                  MIPSInstruction(M_jr, R_ra, None, None, BADADDR)}

InitSearch ==
    /\ mem \in [1..ProbeLen -> SearchWords]
    /\ \E i \in 1..ProbeLen, j \in 1..ProbeLen, p \in ProbePatterns,
          r \in {<<>>, <<R_s1>>} :
          /\ i <= j
          /\ probe = [kind |-> "search", A |-> AddrOf(i), B |-> AddrOf(j),
                      pattern |-> p, protect |-> r, done |-> FALSE,
                      fwd |-> [nb \in BOOLEAN |-> BADADDR],
                      bwd |-> [nb \in BOOLEAN |-> BADADDR]]
    /\ InitIdle

\* _find_next_instruction_ea(A, pattern, B, no_baddies, False, protect) and
\* _find_prev_instruction_ea(B, pattern, A, no_baddies, False, protect), for
\* either value of no_baddies
ApplySearch ==
    /\ probe.kind = "search"
    /\ ~probe.done
    /\ probe' = [probe EXCEPT
                    !.done = TRUE,
                    !.fwd = [nb \in BOOLEAN |->
                                find_next_instruction_ea(probe.A, probe.pattern, probe.B,
                                                         nb, FALSE, probe.protect)],
                    !.bwd = [nb \in BOOLEAN |->
                                find_prev_instruction_ea(probe.B, probe.pattern, probe.A,
                                                         nb, FALSE, probe.protect)]]
    /\ UNCHANGED idle

NextSearch == ApplySearch

SpecSearch == InitSearch /\ [][NextSearch]_vars

\* the instruction addresses lo, lo + 4, ... up to hi
Window(lo, hi) == {a \in lo..hi : (a - lo) % INSIZE = 0}

\* the instruction at a has all the fields the literal pattern p gives
MatchesLiteral(a, p) ==
    \A f \in 1..4 : Truthy(Fields(p)[f]) => Fields(p)[f] = Fields(get_instruction(a))[f]

\* the pattern of the probe matches at m and nowhere else in [A, B]
OnlyMatchAt(m) ==
    /\ m \in Window(probe.A, probe.B)
    /\ \A a \in Window(probe.A, probe.B) : MatchesLiteral(a, probe.pattern) <=> a = m

\* the instruction at a writes one of the registers rs as its first operand
Clobbers(a, rs) ==
    \E k \in 1..Len(rs) : ChangesFirstOperand(a) /\ GetOpnd(a, 0) = rs[k]

(***************************************************************************)
(* C8, as stated: with the pattern matching only at M, A <= M <= B, the    *)
(* search forward from A to B and the search backward from B to A both     *)
(* return M, for either setting of stopOnUnsafe, provided no instruction   *)
(* writing a protected register lies between the start point and M.        *)
(***************************************************************************)
C8_SymmetricUnlessClobbered ==
    probe.kind = "search" /\ probe.done =>
        \A m \in Window(probe.A, probe.B), nb \in BOOLEAN :
            OnlyMatchAt(m) =>
                /\ (\A c \in Window(probe.A, m - INSIZE) : ~Clobbers(c, probe.protect))
                   => probe.fwd[nb] = m
                /\ (\A c \in Window(m + INSIZE, probe.B) : ~Clobbers(c, probe.protect))
                   => probe.bwd[nb] = m

(***************************************************************************)
(* C8, amended: ... both return M when stopOnUnsafe is off; when it is on, *)
(* each returns M provided no instruction that is unsafe to cross (a jump  *)
(* or branch, or a write of a protected register) lies between its start   *)
(* point and M.                                                            *)
(***************************************************************************)
C8_SymmetricUnlessUnsafe ==
    probe.kind = "search" /\ probe.done =>
        \A m \in Window(probe.A, probe.B), nb \in BOOLEAN :
            OnlyMatchAt(m) =>
                /\ (nb => \A c \in Window(probe.A, m - INSIZE) :
                            ~IsJumpOrBranch(c) /\ ~Clobbers(c, probe.protect))
                   => probe.fwd[nb] = m
                /\ (nb => \A c \in Window(m + INSIZE, probe.B) :
                            ~IsJumpOrBranch(c) /\ ~Clobbers(c, probe.protect))
                   => probe.bwd[nb] = m

\* a match strictly inside the window, found from both ends with stopOnUnsafe on
C8_Witness ==
    /\ probe.kind = "search" /\ probe.done
    /\ \E m \in Window(probe.A + INSIZE, probe.B - INSIZE) :
          /\ OnlyMatchAt(m)
          /\ probe.fwd[TRUE] = m /\ probe.bwd[TRUE] = m

(***************************************************************************)
(* C9: clobber stopping in the backward search.  With the only match of    *)
(* the window at M and a non-matching instruction above M (up to the start *)
(* point) that writes the protected register R as its first operand, the   *)
(* search returns NOT_FOUND with stopOnUnsafe on and M with it off; and a  *)
(* matching instruction is returned in both modes even if it is itself     *)
(* unsafe to cross, when nothing unsafe lies above it.                     *)
(***************************************************************************)
C9_ClobberStopsBackward ==
    probe.kind = "search" /\ probe.done =>
        \A m \in Window(probe.A, probe.B) :
            OnlyMatchAt(m) =>
                /\ (\E c \in Window(m + INSIZE, probe.B) : Clobbers(c, probe.protect))
                   => probe.bwd[TRUE] = BADADDR /\ probe.bwd[FALSE] = m
                /\ (\A c \in Window(m + INSIZE, probe.B) :
                        ~IsJumpOrBranch(c) /\ ~Clobbers(c, probe.protect))
                   => probe.bwd[TRUE] = m /\ probe.bwd[FALSE] = m

\* a jump that matches, below an instruction that writes the protected register
C9_Witness ==
    /\ probe.kind = "search" /\ probe.done
    /\ probe.protect = <<R_s1>>
    /\ \E m \in Window(probe.A, probe.B) :
          /\ OnlyMatchAt(m)
          /\ IsJumpOrBranch(m)
          /\ \E c \in Window(m + INSIZE, probe.B) : Clobbers(c, probe.protect)
          /\ probe.bwd[TRUE] = BADADDR /\ probe.bwd[FALSE] = m

(***************************************************************************)
(* Queries: find(instruction_string) hands _find_rop_gadgets a pattern     *)
(* whose register sigils it has escaped.                                   *)
(***************************************************************************)
\* line 380, after the parsing of lines 364-379
Find(gadget) ==
    /\ pc = "done"
    /\ gadget_list' = find_rop_gadgets(gadget)
    /\ query' = <<gadget>>
    /\ UNCHANGED <<mem, segments, xrefs, pc, seg_i, idiom_i, scan_ea, local_jumps,
                   controllable_jumps, system_calls, self_start, self_end, probe>>

Esc_a0 == <<"\\$", "a", "0">>
Esc_s1 == <<"\\$", "s", "1">>

\* find("li $a0, 1"), find("nop"), find("l."), find("move $s1"), find("j")
FindPatterns ==
    {MIPSInstruction(M_li, Esc_a0, <<"1">>, None, BADADDR),
     MIPSInstruction(M_nop, None, None, None, BADADDR),
     MIPSInstruction(<<"l", ".">>, None, None, None, BADADDR),
     MIPSInstruction(M_move, Esc_s1, None, None, BADADDR),
     MIPSInstruction(<<"j">>, None, None, None, BADADDR)}

\* a deep stream: one instruction, a run of nops, a dense tail
HeadWords == {"li_a0_1", "move_s1_a0", "nop"}
TailWords == {"move_t9_s1", "jalr_t9", "li_a0_1", "move_s1_a0"}
Gaps == {0, SEARCH_DEPTH - 1, SEARCH_DEPTH}

DeepStream(h, gap, tail) == <<h>> \o [k \in 1..gap |-> "nop"] \o tail

\* one segment over the whole stream, or one up to the tail and one of the tail
DeepLayouts(n) ==
    {<< <<AddrOf(1), AddrOf(n + 1)>> >>,
     << <<AddrOf(1), AddrOf(n - TailLen + 1)>>,
        <<AddrOf(n - TailLen + 1), AddrOf(n + 1)>> >>}

InitFind ==
    /\ \E h \in HeadWords, gap \in Gaps, tail \in [1..TailLen -> TailWords] :
          mem = DeepStream(h, gap, tail)
    /\ segments \in DeepLayouts(Len(mem))
    /\ xrefs = <<>>
    /\ InitSession

NextFind ==
    \/ Next
    \/ \E gadget \in FindPatterns : Find(gadget)

SpecFind == InitFind /\ [][NextFind]_vars

(***************************************************************************)
(* C4: the result of the Gadget Pattern Search.  At most one Gadget per    *)
(* transfer, in the order of the transfers.  For a transfer, if an         *)
(* instruction of [control, jump + 4] matches (regex mode), the operation  *)
(* is the lowest such address; otherwise, if walking back from the control *)
(* over at most 25 instructions, over instructions that neither match nor  *)
(* are unsafe to cross (the control's second operand protected), reaches a *)
(* match, the operation is that match; otherwise the transfer is left out. *)
(***************************************************************************)
Lowest(S) == CHOOSE a \in S : \A b \in S : a <= b

ForwardMatches(t, p) ==
    {a \in Window(t.entry.ea, t.exit.ea + INSIZE) : does_instruction_match(a, p, TRUE)}

BackwardMatches(t, p) ==
    {b \in {Before(t.entry.ea, k) : k \in 0..SEARCH_DEPTH} :
        /\ does_instruction_match(b, p, TRUE)
        /\ \A c \in Window(b + INSIZE, t.entry.ea) :
              /\ ~does_instruction_match(c, p, TRUE)
              /\ ~IsJumpOrBranch(c)
              /\ ~Clobbers(c, <<t.entry.operands[2]>>)}

ExpectedOperation(t, p) ==
    IF ForwardMatches(t, p) # {} THEN Lowest(ForwardMatches(t, p))
    ELSE IF BackwardMatches(t, p) # {} THEN Lowest(BackwardMatches(t, p))
    ELSE BADADDR

C5_NothingSpansSegments ==
    /\ \A g \in Range(controllable_jumps) :
          \E s \in 1..Len(segments) : InSegment(g.entry.ea, s) /\ InSegment(g.exit.ea, s)
    /\ \A g \in Range(system_calls) :
          \E s \in 1..Len(segments) :
              /\ InSegment(g.entry.ea, s)
              /\ InSegment(g.exit.ea, s)
              /\ InSegment(g.operation.ea, s)
    /\ \A g \in Range(gadget_list) :
          \E s \in 1..Len(segments) :
              /\ InSegment(g.entry.ea, s)
              /\ InSegment(g.exit.ea, s)
              /\ InSegment(g.operation.ea, s)

====
